---- MODULE Spec2Model ----
(***************************************************************************)
(* Riftory marketplace client: gestures, the looped feed, favorites, the   *)
(* device id and the add-listing form.                                     *)
(*                                                                         *)
(*   SpecTap     ReelItem.handleTap, its deferred single-tap timer and the *)
(*               FavoritesProvider it toggles                              *)
(*   SpecScroll  HomeScreen.handleScrollEndDrag, the triple-overscroll     *)
(*               detector                                                  *)
(*   SpecFeed    ForYouScreen.loadProducts and                             *)
(*               EnhancedReelItem.getOriginalProductId                     *)
(*   SpecItem    EnhancedReelItem: favorite check, optimistic toggle and   *)
(*               detail navigation against the favorites API               *)
(*   SpecToggle  the favorite toggles of EnhancedReelItem and of the       *)
(*               HomeScreen grid                                           *)
(*   SpecDevice  getDeviceId over AsyncStorage                             *)
(*   SpecForm    AddProductScreen.validateForm and handleSubmit            *)
(*   SpecProvider  the functions of FavoritesProvider                      *)
(*   SpecDetail  ProductDetailScreen: favorite check and guarded toggle    *)
(*   SpecUnmount  ReelItem.handleTap with the item being unmounted         *)
(*   SpecNav     the routes of the home stack and the hidden section       *)
(*                                                                         *)
(* Time is in milliseconds, as Date.now() reports it.                      *)
(***************************************************************************)
EXTENDS Integers, Sequences, FiniteSets, TLC

\* ---------------------------------------------------------------- bounds
\* Date.now() when the component mounts (any epoch time beyond both windows)
MountTime == 5000
\* how long after mounting the clock of the tap model runs
TapHorizon == 1300
\* how long after mounting the clock of the scroll model runs
ScrollHorizon == 5000
\* qualifying overscroll attempts recorded
MaxAttempts == 4
\* products in one response of the products API
MaxProducts == 2
\* product fetches of the feed screen in flight at once
MaxPendingLoads == 2
\* failed product fetches logged
MaxLoadErrors == 2
\* remote favorite calls issued in one run
MaxCalls == 3
\* presses of the favorite button of one feed item
MaxPresses == 2
\* presses of the favorite button of one product card of a grid
MaxGridPresses == 3
\* presses of the favorite button of the product detail screen
MaxDetailPresses == 3
\* detail navigations from one feed item
MaxNavigations == 1
\* getDeviceId calls in one run
MaxDeviceCalls == 3
\* characters in the price field of the add-listing form
MaxPriceLen == 2
\* photos attached to the add-listing form
MaxImages == 2
\* presses of the submit button of the add-listing form
MaxSubmits == 1
\* calls of the functions of FavoritesProvider in one run
MaxProviderCalls == 3
\* granularity of the clock in the tap model
TimeStep == 100
\* taps delivered to one reel item
MaxTaps == 4

\* ------------------------------------------------------ program constants
DOUBLE_TAP_DELAY == 300

LOOP_MULTIPLIER == 10
OVERSCROLL_WINDOW == 3000
\* paddingToBottom of handleScrollEndDrag
paddingToBottom == 50
\* the velocity.y threshold -0.5, in tenths
VelocityThreshold == -5
\* the overscroll count that unlocks
UnlockCount == 3

\* tapTimeoutRef.current when no handle is stored (null)
NoTimer == 0

\* the product the reel item shows
ProductId == "p1"

\* AsyncStorage.getItem(DEVICE_ID_KEY) when nothing is stored (null)
NoDeviceId == 0

\* handleSubmit is not running
Idle == [stage |-> "idle", left |-> 0]

VARIABLES
  now,            \* Date.now()
  lastTapRef,     \* ReelItem: lastTapRef.current
  tapTimeoutRef,  \* ReelItem: tapTimeoutRef.current, a timer handle or NoTimer
  timers,         \* pending setTimeout callbacks of the item: [id, due, tap]
  favorites,      \* FavoritesProvider: ids of the favorites list, in order
  taps,           \* history: Date.now() of every handleTap call
  tapIdle,        \* history: no timer was pending when handleTap was called
  callbacks,      \* history: [kind, at, tap] of every callback fired
  overscrollCountRef,  \* HomeScreen: overscrollCountRef.current
  lastOverscrollRef,   \* HomeScreen: lastOverscrollRef.current
  haptics,        \* Haptics.impactAsync calls made by handleScrollEndDrag
  unlocks,        \* Date.now() of every navigation.navigate('UpsideDown')
  screen,         \* the screen on top of the home stack
  lastEvent,      \* the latest scroll-end event and whether it was counted
  attempts,       \* history: [at, before, after, fired] per qualifying event
  products,       \* ForYouScreen: products (the shuffled list)
  loopedProducts, \* ForYouScreen: loopedProducts
  loading,        \* ForYouScreen: loading
  refreshing,     \* ForYouScreen: refreshing
  pendingLoads,   \* fetchAllProducts calls of loadProducts not yet settled
  loadErrors,     \* console.error calls of loadProducts
  lastLoadFailed, \* history: the load that settled last was rejected
  currentIndex,   \* ForYouScreen: currentIndex, the active feed position
  itemMounted,    \* an EnhancedReelItem is mounted
  itemId,         \* EnhancedReelItem: product.id, the id of its feed entry
  itemSource,     \* history: the id of the product the feed entry copies
  itemActive,     \* EnhancedReelItem: isActive
  favorited,      \* EnhancedReelItem: favorited
  isTogglingFavorite,  \* EnhancedReelItem: isTogglingFavorite
  itemPresses,    \* history: handleFavoritePress calls of the item
  itemErrors,     \* console.error calls of the item
  detailNav,      \* history: ids of the products given to onViewDetails
  gridFavorite,   \* HomeScreen: favoriteIds.has(id) for the product
  gridPresses,    \* history: HomeScreen.handleFavoritePress calls
  gridErrors,     \* console.error calls of HomeScreen.handleFavoritePress
  inflight,       \* remote favorite calls not yet settled in the client
  remoteCalls,    \* history: [from, kind, id] of every remote call issued
  serverFavorite, \* the ids of the favorites of this device on the server
  deviceCalls,    \* getDeviceId: the calls made, their position and deviceId
  deviceStorage,  \* AsyncStorage: the value stored under DEVICE_ID_KEY
  uuids,          \* Crypto.randomUUID: the UUIDs generated so far
  storageFailed,  \* history: an AsyncStorage operation has rejected
  overlapped,     \* history: a getDeviceId call began during another one
  formData,       \* AddProductScreen: formData (title, price, description)
  selectedCategory,  \* AddProductScreen: selectedCategory
  images,         \* AddProductScreen: images.length
  isSubmitting,   \* AddProductScreen: isSubmitting
  submission,     \* handleSubmit: the await it is at, the images left to read
  imageReads,     \* history: readAsStringAsync calls
  createCalls,    \* history: createProduct calls
  submits,        \* history: handleSubmit calls
  lastAlert,      \* the message of the last Alert.alert
  providerLog,    \* history: the calls of the functions of FavoritesProvider
  detailOpen,     \* a ProductDetailScreen is mounted
  detailProductId,  \* ProductDetailScreen: productId
  isFavorited,    \* ProductDetailScreen: isFavorited
  detailToggling, \* ProductDetailScreen: isTogglingFavorite
  detailPresses,  \* history: handleToggleFavorite calls, [early]
  detailErrors,   \* console.error calls of ProductDetailScreen
  reelMounted,    \* the ReelItem of the taps is mounted
  beneath         \* home stack: the routes between ProductList and `screen`

tapVars ==
  <<lastTapRef, tapTimeoutRef, timers, favorites, taps, tapIdle, callbacks>>

scrollVars ==
  <<overscrollCountRef, lastOverscrollRef, haptics, unlocks, screen,
    lastEvent, attempts>>

feedVars ==
  <<products, loopedProducts, loading, refreshing, pendingLoads, loadErrors,
    lastLoadFailed, currentIndex>>

itemVars ==
  <<itemMounted, itemId, itemSource, itemActive, favorited,
    isTogglingFavorite, itemPresses, itemErrors, detailNav>>

gridVars == <<gridFavorite, gridPresses, gridErrors>>

remoteVars == <<inflight, remoteCalls, serverFavorite>>

favVars == <<itemVars, gridVars, remoteVars>>

deviceVars ==
  <<deviceCalls, deviceStorage, uuids, storageFailed, overlapped>>

formVars ==
  <<formData, selectedCategory, images, isSubmitting, submission,
    imageReads, createCalls, submits, lastAlert>>

provVars == <<providerLog>>

detailVars ==
  <<detailOpen, detailProductId, isFavorited, detailToggling, detailPresses,
    detailErrors>>

screenVars == <<detailVars, reelMounted, beneath>>

appVars == <<deviceVars, formVars, provVars, screenVars>>

vars == <<now, tapVars, scrollVars, feedVars, favVars, appVars>>

Min2(a, b) == IF a <= b THEN a ELSE b

\* ------------------------------------------------------------ favorites
\* prev.some(p => p.id === id)
HasId(list, id) == \E k \in 1..Len(list) : list[k] = id

\* prev.filter(p => p.id !== id)
RemoveId(list, id) == SelectSeq(list, LAMBDA x : x # id)

\* FavoritesProvider.toggleFavorite: the updater applied to the list
toggleFavorite(list, id) ==
  IF HasId(list, id) THEN RemoveId(list, id) ELSE Append(list, id)

\* -------------------------------------------------------------- ReelItem
\* lastEvent before any scroll-end event
NoEvent == [height |-> 0, offset |-> 0, content |-> 0, hasVelocity |-> FALSE,
            velocityY |-> 0, counted |-> FALSE, seen |-> FALSE]

Init ==
  /\ now = MountTime
  /\ lastTapRef = 0
  /\ tapTimeoutRef = NoTimer
  /\ timers = {}
  /\ favorites = <<>>
  /\ taps = <<>>
  /\ tapIdle = <<>>
  /\ callbacks = <<>>
  /\ overscrollCountRef = 0
  /\ lastOverscrollRef = 0
  /\ haptics = 0
  /\ unlocks = <<>>
  /\ screen = "Home"
  /\ lastEvent = NoEvent
  /\ attempts = <<>>
  /\ products = <<>>
  /\ loopedProducts = <<>>
  /\ loading = TRUE
  /\ refreshing = FALSE
  /\ pendingLoads = 0
  /\ loadErrors = 0
  /\ lastLoadFailed = FALSE
  /\ currentIndex = 0
  /\ itemMounted = FALSE
  /\ itemId = <<>>
  /\ itemSource = <<>>
  /\ itemActive = FALSE
  /\ favorited = FALSE
  /\ isTogglingFavorite = FALSE
  /\ itemPresses = <<>>
  /\ itemErrors = 0
  /\ detailNav = <<>>
  /\ gridFavorite = FALSE
  /\ gridPresses = <<>>
  /\ gridErrors = 0
  /\ inflight = {}
  /\ remoteCalls = <<>>
  /\ serverFavorite = {}
  /\ deviceCalls = <<>>
  /\ deviceStorage = NoDeviceId
  /\ uuids = 0
  /\ storageFailed = FALSE
  /\ overlapped = FALSE
  /\ formData = [title |-> <<>>, price |-> <<>>, description |-> <<>>]
  /\ selectedCategory = ""
  /\ images = 0
  /\ isSubmitting = FALSE
  /\ submission = Idle
  /\ imageReads = 0
  /\ createCalls = 0
  /\ submits = 0
  /\ lastAlert = "none"
  /\ providerLog = <<>>
  /\ detailOpen = FALSE
  /\ detailProductId = <<>>
  /\ isFavorited = FALSE
  /\ detailToggling = FALSE
  /\ detailPresses = <<>>
  /\ detailErrors = 0
  /\ reelMounted = TRUE
  /\ beneath = <<>>

\* the earliest due time among the pending timers
NextDue == CHOOSE d \in {t.due : t \in timers} : \A t \in timers : d <= t.due

\* mutation: a tap exactly DOUBLE_TAP_DELAY after the last one pairs with it
IsDoubleTap_inclusive(timeSinceLastTap) == timeSinceLastTap <= DOUBLE_TAP_DELAY

\* the double-tap test of handleTap: timeSinceLastTap < DOUBLE_TAP_DELAY
IsDoubleTap(timeSinceLastTap) == timeSinceLastTap < DOUBLE_TAP_DELAY

\* mutation: lastTapRef keeps the time of the first tap of the pair
ResetLastTap_kept == lastTapRef

\* lastTapRef.current after a double tap: the sentinel
ResetLastTap == 0

\* clearTimeout(handle): a handle that already ran is ignored
clearTimeout(pending, handle) == {t \in pending : t.id # handle}

\* ReelItem.handleTap
handleTap ==
  /\ reelMounted
  /\ Len(taps) < MaxTaps
  /\ LET n == Len(taps) + 1
         timeSinceLastTap == now - lastTapRef
     IN  /\ taps' = Append(taps, now)
         /\ tapIdle' = Append(tapIdle, timers = {})
         /\ IF IsDoubleTap(timeSinceLastTap)
            THEN /\ timers' = IF tapTimeoutRef # NoTimer
                              THEN clearTimeout(timers, tapTimeoutRef)
                              ELSE timers
                 /\ tapTimeoutRef' = NoTimer
                 /\ favorites' = toggleFavorite(favorites, ProductId)
                 /\ callbacks' = Append(callbacks,
                        [kind |-> "toggleFavorite", at |-> now, tap |-> n])
                 /\ lastTapRef' = ResetLastTap
            ELSE /\ lastTapRef' = now
                 /\ timers' = timers \cup
                        {[id |-> n, due |-> now + DOUBLE_TAP_DELAY, tap |-> n]}
                 /\ tapTimeoutRef' = n
                 /\ UNCHANGED <<favorites, callbacks>>
  /\ UNCHANGED <<favVars, appVars, now, scrollVars, feedVars>>

\* the setTimeout callback of handleTap runs: never before it is due; a tap
\* handled in the millisecond the callback is due runs before or after it
TimerFires ==
  /\ \E t \in timers :
       /\ now >= t.due
       /\ timers' = timers \ {t}
       /\ callbacks' = Append(callbacks,
              [kind |-> "onSingleTap", at |-> now, tap |-> t.tap])
       /\ tapTimeoutRef' = NoTimer
  /\ UNCHANGED <<favVars, appVars,
                 now, lastTapRef, favorites, taps, tapIdle, scrollVars,
                 feedVars>>

\* time passes; a due timer runs before the clock moves on
TapTick ==
  /\ \E d \in {TimeStep, DOUBLE_TAP_DELAY - 1} :
       LET target == IF timers = {} THEN now + d ELSE Min2(now + d, NextDue)
       IN  /\ target > now
           /\ target <= MountTime + TapHorizon
           /\ now' = target
  /\ UNCHANGED <<favVars, appVars, tapVars, scrollVars, feedVars>>

TapNext == handleTap \/ TimerFires \/ TapTick

SpecTap == Init /\ [][TapNext]_vars

\* the ReelItem is unmounted (its screen is left, or the list drops the
\* item): the component has no effect cleanup, so its refs and its pending
\* setTimeout callbacks are left as they are
ReelItem_unmount ==
  /\ reelMounted
  /\ reelMounted' = FALSE
  /\ UNCHANGED <<now, tapVars, scrollVars, feedVars, favVars, deviceVars,
                 formVars, provVars, detailVars, beneath>>

UnmountNext == handleTap \/ TimerFires \/ TapTick \/ ReelItem_unmount

SpecUnmount == Init /\ [][UnmountNext]_vars

\* ------------------------------------------------------------ HomeScreen
\* layoutMeasurement.height, contentOffset.y and contentSize.height of the
\* scroll-end events delivered: 51 short of the end, 50 short, past the end
Geometries ==
  { [height |-> 600, offset |-> 349, content |-> 1000],
    [height |-> 600, offset |-> 350, content |-> 1000],
    [height |-> 600, offset |-> 450, content |-> 1000] }

\* velocity of the events: absent, or with velocity.y -0.6, -0.5, 0.7 (in
\* tenths)
Velocities ==
  { [hasVelocity |-> FALSE, velocityY |-> 0] } \cup
  { [hasVelocity |-> TRUE, velocityY |-> v] : v \in {-6, -5, 7} }

ScrollEvents ==
  { [height |-> g.height, offset |-> g.offset, content |-> g.content,
     hasVelocity |-> v.hasVelocity, velocityY |-> v.velocityY] :
       g \in Geometries, v \in Velocities }

\* mutation: the list must be closer than paddingToBottom to its end
atBottom_strict(e) == e.height + e.offset > e.content - paddingToBottom

\* atBottom of handleScrollEndDrag
atBottom(e) == e.height + e.offset >= e.content - paddingToBottom

\* mutation: a velocity of exactly -0.5 counts
IsOverscroll_inclusive(e) ==
  atBottom(e) /\ e.hasVelocity /\ e.velocityY <= VelocityThreshold

\* atBottom && velocity && velocity.y < -0.5
IsOverscroll(e) ==
  atBottom(e) /\ e.hasVelocity /\ e.velocityY < VelocityThreshold

\* mutation: the window is twice as long
WindowExpired_double(gap) == gap > 2 * OVERSCROLL_WINDOW

\* mutation: the window is never found expired
WindowExpired_never(gap) == FALSE

\* mutation: a gap of exactly the window resets the counter
WindowExpired_inclusive(gap) == gap >= OVERSCROLL_WINDOW

\* now - lastOverscrollRef.current > OVERSCROLL_WINDOW
WindowExpired(gap) == gap > OVERSCROLL_WINDOW

\* mutation: the unlock needs one attempt more
ReachedUnlock_late(count) == count >= UnlockCount + 1

\* overscrollCountRef.current >= 3
ReachedUnlock(count) == count >= UnlockCount

\* HomeScreen.handleScrollEndDrag
handleScrollEndDrag(e) ==
  /\ screen = "Home"
  /\ IF IsOverscroll(e)
     THEN LET reset == IF WindowExpired(now - lastOverscrollRef)
                       THEN 0 ELSE overscrollCountRef
              count == reset + 1
              fire  == ReachedUnlock(count)
          IN  /\ Len(attempts) < MaxAttempts
              /\ lastOverscrollRef' = now
              /\ haptics' = haptics + 1
              /\ overscrollCountRef' = IF fire THEN 0 ELSE count
              /\ unlocks' = IF fire THEN Append(unlocks, now) ELSE unlocks
              /\ screen' = IF fire THEN "UpsideDown" ELSE screen
              /\ attempts' = Append(attempts,
                     [at |-> now, before |-> overscrollCountRef,
                      after |-> overscrollCountRef', fired |-> fire])
              /\ lastEvent' = [height |-> e.height, offset |-> e.offset,
                               content |-> e.content,
                               hasVelocity |-> e.hasVelocity,
                               velocityY |-> e.velocityY,
                               counted |-> TRUE, seen |-> TRUE]
     ELSE /\ lastEvent' = [height |-> e.height, offset |-> e.offset,
                           content |-> e.content,
                           hasVelocity |-> e.hasVelocity,
                           velocityY |-> e.velocityY,
                           counted |-> FALSE, seen |-> TRUE]
          /\ UNCHANGED <<overscrollCountRef, lastOverscrollRef, haptics,
                         unlocks, screen, attempts>>
  /\ UNCHANGED <<favVars, appVars, now, tapVars, feedVars>>

ScrollEndDrag == \E e \in ScrollEvents : handleScrollEndDrag(e)

\* the user leaves the UpsideDown screen; HomeScreen stayed mounted under it
GoBack ==
  /\ screen = "UpsideDown"
  /\ screen' = "Home"
  /\ UNCHANGED <<favVars, appVars, now, tapVars, feedVars, overscrollCountRef,
                 lastOverscrollRef, haptics, unlocks, lastEvent, attempts>>

\* time passes between scroll gestures
ScrollTick ==
  /\ \E d \in {500, OVERSCROLL_WINDOW, OVERSCROLL_WINDOW + 1} :
       /\ now + d <= MountTime + ScrollHorizon
       /\ now' = now + d
  /\ UNCHANGED <<favVars, appVars, tapVars, scrollVars, feedVars>>

ScrollNext == ScrollEndDrag \/ GoBack \/ ScrollTick

SpecScroll == Init /\ [][ScrollNext]_vars

\* -------------------------------------------------------- the home stack
\* the navigate calls with an extra one: the home screen opens the hidden
\* section from a button
Routes_shortcut(s) ==
  IF s = "Home" THEN {"ProductDetail", "Reels", "AddProduct", "UpsideDown"}
  ELSE IF s = "Reels" THEN {"ProductDetail"}
  ELSE IF s = "UpsideDown"
    THEN {"ProductDetail", "AddUpsideDownProduct", "UpsideDownReels"}
  ELSE IF s = "UpsideDownReels" THEN {"ProductDetail"}
  ELSE {}

\* the routes the handlers of screen s pass to navigation.navigate, the
\* navigate('UpsideDown') of handleScrollEndDrag apart: handleProductPress,
\* handleReelsPress and handleAddProduct of HomeScreen and of
\* UpsideDownScreen, handleViewDetails of the two feed screens
Routes(s) ==
  IF s = "Home" THEN {"ProductDetail", "Reels", "AddProduct"}
  ELSE IF s = "Reels" THEN {"ProductDetail"}
  ELSE IF s = "UpsideDown"
    THEN {"ProductDetail", "AddUpsideDownProduct", "UpsideDownReels"}
  ELSE IF s = "UpsideDownReels" THEN {"ProductDetail"}
  ELSE {}

\* the routes of the home stack, ProductList ("Home") at the bottom
Stack ==
  <<"Home">> \o beneath \o (IF screen = "Home" THEN <<>> ELSE <<screen>>)

\* the frame of the steps that only move in the home stack
NavFrame ==
  UNCHANGED <<now, tapVars, feedVars, favVars, deviceVars, formVars,
              provVars, detailVars, reelMounted, overscrollCountRef,
              lastOverscrollRef, haptics, unlocks, lastEvent, attempts>>

\* a handler of the screen on top calls navigation.navigate(route)
Navigate ==
  /\ \E route \in Routes(screen) :
       /\ screen' = route
       /\ beneath' = IF screen = "Home" THEN <<>> ELSE Append(beneath, screen)
  /\ NavFrame

\* navigation.goBack() of a screen other than UpsideDownScreen, or the back
\* gesture: the route on top is popped
NavigateBack ==
  /\ screen \notin {"Home", "UpsideDown"}
  /\ screen' = IF beneath = <<>> THEN "Home" ELSE beneath[Len(beneath)]
  /\ beneath' = IF beneath = <<>> THEN <<>>
                ELSE SubSeq(beneath, 1, Len(beneath) - 1)
  /\ NavFrame

NavNext == ScrollEndDrag \/ GoBack \/ ScrollTick \/ Navigate \/ NavigateBack

SpecNav == Init /\ [][NavNext]_vars

\* ---------------------------------------------------------- ForYouScreen
\* Strings are sequences of one-character strings.
Str_a == <<"a">>
Str_b == <<"b">>
Str_a_loop1_0 == <<"a", "_", "l", "o", "o", "p", "1", "_", "0">>

\* a field of a ProductData record that is missing (undefined)
Absent == [present |-> FALSE, value |-> <<>>]
Field(str) == [present |-> TRUE, value |-> str]

\* the product collection, in the order the products API lists it: a
\* record with _id, with id only, with neither, with an empty _id and an id
\* that looks like a looped one
Collection ==
  << [_id |-> Field(Str_a), id |-> Absent, title |-> "t1"],
     [_id |-> Absent, id |-> Field(Str_b), title |-> "t2"],
     [_id |-> Absent, id |-> Absent, title |-> "t3"],
     [_id |-> Field(<<>>), id |-> Field(Str_a_loop1_0), title |-> "t4"] >>

\* ProductData records the products API returns
RawRecords == {Collection[k] : k \in 1..Len(Collection)}

\* the positions in the collection of the records of one response
Selections ==
  {f \in UNION { [1..n -> 1..Len(Collection)] : n \in 0..MaxProducts } :
     \A j, k \in 1..Len(f) : j < k => f[j] < f[k]}

\* the responses of fetchAllProducts: up to MaxProducts records of the
\* collection, each at most once
Responses == {[k \in 1..Len(f) |-> Collection[f[k]]] : f \in Selections}

\* a field is truthy: present and not the empty string
Truthy(f) == f.present /\ f.value # <<>>

\* convertToProduct: id is apiProduct._id || apiProduct.id || ''
convertToProduct(apiProduct) ==
  [id |-> IF Truthy(apiProduct._id) THEN apiProduct._id.value
          ELSE IF Truthy(apiProduct.id) THEN apiProduct.id.value
          ELSE <<>>,
   title |-> apiProduct.title]

DigitChars == <<"0", "1", "2", "3", "4", "5", "6", "7", "8", "9">>

\* \d of a regular expression
IsDigit(c) == \E k \in 1..10 : DigitChars[k] = c

\* `${n}` for a non-negative integer: its decimal digits
RECURSIVE NumberToString(_)
NumberToString(n) ==
  IF n < 10 THEN <<DigitChars[n + 1]>>
  ELSE NumberToString(n \div 10) \o <<DigitChars[(n % 10) + 1]>>

\* mutation: the pass and the index change places in the identifier
LoopedId_swapped(id, i, idx) ==
  id \o <<"_", "l", "o", "o", "p">> \o NumberToString(idx)
     \o <<"_">> \o NumberToString(i)

\* `${product.id}_loop${i}_${idx}`
LoopedId(id, i, idx) ==
  id \o <<"_", "l", "o", "o", "p">> \o NumberToString(i)
     \o <<"_">> \o NumberToString(idx)

\* s matches _loop\d+_\d+ as a whole
MatchesLoopSuffix(s) ==
  /\ Len(s) >= 8
  /\ SubSeq(s, 1, 5) = <<"_", "l", "o", "o", "p">>
  /\ \E u \in 7..(Len(s) - 1) :
       /\ s[u] = "_"
       /\ \A k \in 6..(u - 1) : IsDigit(s[k])
       /\ \A k \in (u + 1)..Len(s) : IsDigit(s[k])

\* the lengths the group (.+) of /^(.+)_loop\d+_\d+$/ can take on id
GroupLengths(id) ==
  {k \in 1..Len(id) : MatchesLoopSuffix(SubSeq(id, k + 1, Len(id)))}

\* EnhancedReelItem.getOriginalProductId: the greedy group, or id unchanged
getOriginalProductId(id) ==
  IF GroupLengths(id) = {} THEN id
  ELSE SubSeq(id, 1, CHOOSE k \in GroupLengths(id) :
                        \A j \in GroupLengths(id) : j <= k)

\* the orders [...].sort(() => Math.random() - 0.5) can leave n items in
Orders(n) == {f \in [1..n -> 1..n] : \A x, y \in 1..n : x # y => f[x] # f[y]}

\* shuffled.forEach((product, idx) => looped.push({...product, id: ...}))
\* from index idx on, in pass i
RECURSIVE PushPass(_, _, _, _)
PushPass(looped, shuffled, i, idx) ==
  IF idx >= Len(shuffled) THEN looped
  ELSE PushPass(Append(looped,
                       [id |-> LoopedId(shuffled[idx + 1].id, i, idx),
                        title |-> shuffled[idx + 1].title]),
                shuffled, i, idx + 1)

\* for (let i = ...; i < LOOP_MULTIPLIER; i++) from pass i on
RECURSIVE LoopPasses(_, _, _)
LoopPasses(looped, shuffled, i) ==
  IF i >= LOOP_MULTIPLIER THEN looped
  ELSE LoopPasses(PushPass(looped, shuffled, i, 0), shuffled, i + 1)

\* the looped array of loadProducts: LOOP_MULTIPLIER passes over shuffled
Looped(shuffled) == LoopPasses(<<>>, shuffled, 0)

\* loadProducts up to its await, called by the focus effect
FocusLoad ==
  /\ pendingLoads < MaxPendingLoads
  /\ pendingLoads' = pendingLoads + 1
  /\ UNCHANGED <<favVars, appVars,
                 now, tapVars, scrollVars, products, loopedProducts,
                 loading, refreshing, loadErrors, lastLoadFailed,
                 currentIndex>>

\* onRefresh: the pull-to-refresh of the feed list, rendered when the screen
\* is not loading and has products
onRefresh ==
  /\ ~loading
  /\ Len(products) > 0
  /\ pendingLoads < MaxPendingLoads
  /\ refreshing' = TRUE
  /\ pendingLoads' = pendingLoads + 1
  /\ UNCHANGED <<favVars, appVars,
                 now, tapVars, scrollVars, products, loopedProducts,
                 loading, loadErrors, lastLoadFailed, currentIndex>>

\* loadProducts after fetchAllProducts resolved with data
LoadResolves ==
  /\ pendingLoads > 0
  /\ \E data \in Responses :
       \E order \in Orders(Len(data)) :
         LET convertedProducts == [k \in 1..Len(data) |->
                                     convertToProduct(data[k])]
             shuffled == [k \in 1..Len(data) |-> convertedProducts[order[k]]]
         IN  /\ products' = shuffled
             /\ loopedProducts' = Looped(shuffled)
  /\ loading' = FALSE
  /\ refreshing' = FALSE
  /\ pendingLoads' = pendingLoads - 1
  /\ lastLoadFailed' = FALSE
  /\ UNCHANGED <<favVars, appVars,
                 now, tapVars, scrollVars, loadErrors, currentIndex>>

\* mutation: a rejected fetch is issued again
LoadRejects_retrying ==
  /\ pendingLoads > 0
  /\ loadErrors < MaxLoadErrors
  /\ loadErrors' = loadErrors + 1
  /\ loading' = FALSE
  /\ refreshing' = FALSE
  /\ lastLoadFailed' = TRUE
  /\ UNCHANGED <<favVars, appVars,
                 now, tapVars, scrollVars, products, loopedProducts,
                 pendingLoads, currentIndex>>

\* loadProducts after fetchAllProducts rejected
LoadRejects ==
  /\ pendingLoads > 0
  /\ loadErrors < MaxLoadErrors
  /\ loadErrors' = loadErrors + 1
  /\ loading' = FALSE
  /\ refreshing' = FALSE
  /\ pendingLoads' = pendingLoads - 1
  /\ lastLoadFailed' = TRUE
  /\ UNCHANGED <<favVars, appVars,
                 now, tapVars, scrollVars, products, loopedProducts,
                 currentIndex>>

\* a ViewToken of the feed list: its index, or a null index
NullToken == [isNull |-> TRUE, index |-> 0]
Token(index) == [isNull |-> FALSE, index |-> index]

\* the ViewTokens the list reports: the first two and the last position
ViewTokens ==
  {NullToken} \cup
  {Token(k) : k \in {0, 1, Len(loopedProducts) - 1} \cap
                    (0..(Len(loopedProducts) - 1))}

\* the viewableItems arrays the list reports, of up to two tokens
ViewableReports == UNION { [1..n -> ViewTokens] : n \in 0..2 }

\* mutation: the last viewable item becomes the active one
ReportedIndex_last(viewableItems) == viewableItems[Len(viewableItems)].index

\* viewableItems[0].index
ReportedIndex(viewableItems) == viewableItems[1].index

\* ForYouScreen.onViewableItemsChanged
onViewableItemsChanged(viewableItems) ==
  /\ ~loading
  /\ Len(products) > 0
  /\ currentIndex' = IF Len(viewableItems) > 0 /\ ~viewableItems[1].isNull
                     THEN ReportedIndex(viewableItems)
                     ELSE currentIndex
  /\ UNCHANGED <<favVars, appVars,
                 now, tapVars, scrollVars, products, loopedProducts,
                 loading,
                 refreshing, pendingLoads, loadErrors, lastLoadFailed>>

ViewableItemsChanged ==
  \E viewableItems \in ViewableReports : onViewableItemsChanged(viewableItems)

\* renderItem: isActive of the item at a feed position
isActive(index) == index = currentIndex

FeedNext ==
  \/ FocusLoad
  \/ onRefresh
  \/ LoadResolves
  \/ LoadRejects
  \/ ViewableItemsChanged

SpecFeed == Init /\ [][FeedNext]_vars

\* ------------------------------------ EnhancedReelItem, remote favorites
\* the ids convertToProduct gives the records of the products API
SourceIds == {convertToProduct(r).id : r \in RawRecords}

\* the (pass, position) pairs of the first and of the last feed entry
Corners == {<<0, 0>>, <<LOOP_MULTIPLIER - 1, MaxProducts - 1>>}

\* renderItem: the feed entries an EnhancedReelItem can be mounted on
FeedEntries ==
  {[id |-> LoopedId(src, at[1], at[2]), source |-> src] :
     src \in SourceIds, at \in Corners}

\* product.id of the product card of the HomeScreen grid
GridProductId == Str_a

\* const originalProductId = getOriginalProductId(product.id)
originalProductId == getOriginalProductId(itemId)

\* favorite-button presses handled so far, feed item and grid together
Presses == Len(itemPresses) + Len(gridPresses)

\* a toggle call of the component `from` has not settled yet
TogglePending(from) ==
  \E c \in inflight : c.from = from /\ c.kind # "check"

\* apiRequest of checkIsFavorite / addFavorite / removeFavorite: the
\* request of kind `kind` for product id leaves the client
apiRequest(from, kind, id) ==
  /\ Len(remoteCalls) < MaxCalls
  /\ inflight' = inflight \cup
       {[n |-> Len(remoteCalls) + 1, from |-> from, kind |-> kind,
         id |-> id, stage |-> "sent", result |-> FALSE]}
  /\ remoteCalls' = Append(remoteCalls,
                           [from |-> from, kind |-> kind, id |-> id])
  /\ UNCHANGED serverFavorite

\* FlatList renders an EnhancedReelItem for one entry of loopedProducts
Mount ==
  /\ ~itemMounted
  /\ \E entry \in FeedEntries :
       /\ itemId' = entry.id
       /\ itemSource' = entry.source
  /\ itemMounted' = TRUE
  /\ UNCHANGED <<now, appVars,
                 tapVars, scrollVars, feedVars, gridVars, remoteVars,
                 itemActive, favorited, isTogglingFavorite, itemPresses,
                 itemErrors, detailNav>>

\* isActive turns true: the effect calls checkFavoriteStatus, up to its await
Activate ==
  /\ itemMounted
  /\ ~itemActive
  /\ itemActive' = TRUE
  /\ apiRequest("item", "check", originalProductId)
  /\ UNCHANGED <<now, appVars,
                 tapVars, scrollVars, feedVars, gridVars, itemMounted,
                 itemId, itemSource, favorited, isTogglingFavorite,
                 itemPresses, itemErrors, detailNav>>

\* isActive turns false: the effect only resets the animated values
Deactivate ==
  /\ itemMounted
  /\ itemActive
  /\ itemActive' = FALSE
  /\ UNCHANGED <<now, appVars,
                 tapVars, scrollVars, feedVars, gridVars, remoteVars,
                 itemMounted, itemId, itemSource, favorited,
                 isTogglingFavorite, itemPresses, itemErrors, detailNav>>

\* toggleFavoriteAPI with its guard removed
toggleFavoriteAPI_unguarded ==
  /\ isTogglingFavorite' = TRUE
  /\ apiRequest("item", IF favorited THEN "remove" ELSE "add",
                originalProductId)

\* toggleFavoriteAPI up to its await, with the favorited and the
\* isTogglingFavorite of the render the pressed handler belongs to
toggleFavoriteAPI ==
  IF isTogglingFavorite
    THEN UNCHANGED <<isTogglingFavorite, remoteVars>>
    ELSE /\ isTogglingFavorite' = TRUE
         /\ apiRequest("item", IF favorited THEN "remove" ELSE "add",
                       originalProductId)

\* EnhancedReelItem.handleFavoritePress: setFavorited(!favorited), then
\* toggleFavoriteAPI() without awaiting it.  handleSave has the same body,
\* but its button is in the quick-actions modal, which nothing opens
\* (showQuickActions is only ever set to false).
handleFavoritePress ==
  /\ itemMounted
  /\ Len(itemPresses) < MaxPresses
  /\ favorited' = ~favorited
  /\ toggleFavoriteAPI
  /\ itemPresses' = Append(itemPresses,
                           [inFlight |-> TogglePending("item")])
  /\ UNCHANGED <<now, appVars,
                 tapVars, scrollVars, feedVars, gridVars, itemMounted,
                 itemId, itemSource, itemActive, itemErrors, detailNav>>

\* the Details button: onViewDetails({...product, id: originalProductId}),
\* the call handleViewDetails makes too
handleViewDetails ==
  /\ itemMounted
  /\ Len(detailNav) < MaxNavigations
  /\ detailNav' = Append(detailNav, originalProductId)
  /\ UNCHANGED <<now, appVars,
                 tapVars, scrollVars, feedVars, gridVars, remoteVars,
                 itemMounted, itemId, itemSource, itemActive, favorited,
                 isTogglingFavorite, itemPresses, itemErrors>>

\* HomeScreen.handleFavoritePress up to its await
HomeScreen_handleFavoritePress ==
  /\ Len(gridPresses) < MaxGridPresses
  /\ apiRequest("grid", IF gridFavorite THEN "remove" ELSE "add",
                GridProductId)
  /\ gridPresses' = Append(gridPresses,
                           [inFlight |-> TogglePending("grid")])
  /\ UNCHANGED <<now, appVars,
                 tapVars, scrollVars, feedVars, itemVars, gridFavorite,
                 gridErrors>>

\* the favorites of this device after the server has served call c
Served(c) ==
  IF c.kind = "add" THEN serverFavorite \cup {c.id}
  ELSE IF c.kind = "remove" THEN serverFavorite \ {c.id}
  ELSE serverFavorite

\* the request of a call is answered by the server, or fetch rejects
ServerHandles ==
  /\ \E c \in inflight :
       /\ c.stage = "sent"
       /\ \/ /\ serverFavorite' = Served(c)
             /\ inflight' = (inflight \ {c}) \cup
                  {[c EXCEPT !.stage = "ok",
                             !.result = (c.id \in serverFavorite)]}
          \/ /\ serverFavorite' = serverFavorite
             /\ inflight' = (inflight \ {c}) \cup
                  {[c EXCEPT !.stage = "failed"]}
  /\ UNCHANGED <<now, appVars,
                 tapVars, scrollVars, feedVars, itemVars, gridVars,
                 remoteCalls>>

\* checkFavoriteStatus after its await
CheckSettles ==
  /\ \E c \in inflight :
       /\ c.from = "item" /\ c.kind = "check" /\ c.stage # "sent"
       /\ inflight' = inflight \ {c}
       /\ IF c.stage = "ok"
            THEN favorited' = c.result /\ itemErrors' = itemErrors
            ELSE favorited' = favorited /\ itemErrors' = itemErrors + 1
  /\ UNCHANGED <<now, appVars,
                 tapVars, scrollVars, feedVars, gridVars, remoteCalls,
                 serverFavorite, itemMounted, itemId, itemSource, itemActive,
                 isTogglingFavorite, itemPresses, detailNav>>

\* a toggleFavoriteAPI that sets favorited back when its call failed
FavoritedAfterToggle_rollback(c) ==
  IF c.stage = "ok" THEN c.kind = "add" ELSE c.kind = "remove"

\* favorited after toggleFavoriteAPI has settled call c: setFavorited(true)
\* or setFavorited(false) after the await, nothing in the catch
FavoritedAfterToggle(c) ==
  IF c.stage = "ok" THEN c.kind = "add" ELSE favorited

\* toggleFavoriteAPI after its await, with its catch and its finally
ToggleSettles ==
  /\ \E c \in inflight :
       /\ c.from = "item" /\ c.kind # "check" /\ c.stage # "sent"
       /\ inflight' = inflight \ {c}
       /\ favorited' = FavoritedAfterToggle(c)
       /\ itemErrors' = IF c.stage = "ok" THEN itemErrors ELSE itemErrors + 1
  /\ isTogglingFavorite' = FALSE
  /\ UNCHANGED <<now, appVars,
                 tapVars, scrollVars, feedVars, gridVars, remoteCalls,
                 serverFavorite, itemMounted, itemId, itemSource, itemActive,
                 itemPresses, detailNav>>

\* HomeScreen.handleFavoritePress after its await, with its catch
GridSettles ==
  /\ \E c \in inflight :
       /\ c.from = "grid" /\ c.stage # "sent"
       /\ inflight' = inflight \ {c}
       /\ IF c.stage = "ok"
            THEN gridFavorite' = (c.kind = "add") /\ gridErrors' = gridErrors
            ELSE gridFavorite' = gridFavorite /\ gridErrors' = gridErrors + 1
  /\ UNCHANGED <<now, appVars,
                 tapVars, scrollVars, feedVars, itemVars, gridPresses,
                 remoteCalls, serverFavorite>>

ItemNext ==
  \/ Mount
  \/ Activate
  \/ Deactivate
  \/ handleFavoritePress
  \/ handleViewDetails
  \/ ServerHandles
  \/ CheckSettles
  \/ ToggleSettles

SpecItem == Init /\ [][ItemNext]_vars

ToggleNext ==
  \/ Mount
  \/ handleFavoritePress
  \/ HomeScreen_handleFavoritePress
  \/ ServerHandles
  \/ ToggleSettles
  \/ GridSettles

SpecToggle == Init /\ [][ToggleNext]_vars

\* ------------------------------------------------- ProductDetailScreen
\* the frame of the steps of the product detail screen
DetailFrame ==
  UNCHANGED <<now, tapVars, scrollVars, feedVars, itemVars, gridVars,
              deviceVars, formVars, provVars, reelMounted, beneath>>

\* useFocusEffect: checkFavoriteStatus up to its await; nothing is sent for
\* an empty productId
ProductDetail_checkFavoriteStatus(id) ==
  IF id = <<>>
    THEN UNCHANGED remoteVars
    ELSE apiRequest("detail", "check", id)

\* navigation.navigate('ProductDetail', { product }): the screen mounts with
\* productId = product._id || product.id || '' and gets the focus
ProductDetail_mount ==
  /\ ~detailOpen
  /\ detailOpen' = TRUE
  /\ \E id \in SourceIds :
       /\ detailProductId' = id
       /\ ProductDetail_checkFavoriteStatus(id)
  /\ UNCHANGED <<isFavorited, detailToggling, detailPresses, detailErrors>>
  /\ DetailFrame

\* the screen gets the focus again (the user comes back to it)
ProductDetail_focus ==
  /\ detailOpen
  /\ detailProductId # <<>>
  /\ ProductDetail_checkFavoriteStatus(detailProductId)
  /\ UNCHANGED detailVars
  /\ DetailFrame

\* checkFavoriteStatus after its await
ProductDetail_checkSettles ==
  /\ \E c \in inflight :
       /\ c.from = "detail" /\ c.kind = "check" /\ c.stage # "sent"
       /\ inflight' = inflight \ {c}
       /\ IF c.stage = "ok"
            THEN isFavorited' = c.result /\ detailErrors' = detailErrors
            ELSE isFavorited' = isFavorited
                 /\ detailErrors' = detailErrors + 1
  /\ UNCHANGED <<remoteCalls, serverFavorite, detailOpen, detailProductId,
                 detailToggling, detailPresses>>
  /\ DetailFrame

\* handleToggleFavorite without the isTogglingFavorite half of its guard
ReturnsEarly_unlocked == detailProductId = <<>>

\* if (isTogglingFavorite || !productId) return;
ReturnsEarly == detailToggling \/ detailProductId = <<>>

\* handleToggleFavorite up to its await
handleToggleFavorite ==
  /\ detailOpen
  /\ Len(detailPresses) < MaxDetailPresses
  /\ detailPresses' = Append(detailPresses, [early |-> ReturnsEarly])
  /\ IF ReturnsEarly
       THEN UNCHANGED <<detailToggling, remoteVars>>
       ELSE /\ detailToggling' = TRUE
            /\ apiRequest("detail", IF isFavorited THEN "remove" ELSE "add",
                          detailProductId)
  /\ UNCHANGED <<detailOpen, detailProductId, isFavorited, detailErrors>>
  /\ DetailFrame

\* handleToggleFavorite after its await, with its catch and its finally
ProductDetail_toggleSettles ==
  /\ \E c \in inflight :
       /\ c.from = "detail" /\ c.kind # "check" /\ c.stage # "sent"
       /\ inflight' = inflight \ {c}
       /\ IF c.stage = "ok"
            THEN isFavorited' = (c.kind = "add")
                 /\ detailErrors' = detailErrors
            ELSE isFavorited' = isFavorited
                 /\ detailErrors' = detailErrors + 1
  /\ detailToggling' = FALSE
  /\ UNCHANGED <<remoteCalls, serverFavorite, detailOpen, detailProductId,
                 detailPresses>>
  /\ DetailFrame

DetailNext ==
  \/ ProductDetail_mount
  \/ ProductDetail_focus
  \/ handleToggleFavorite
  \/ ServerHandles
  \/ ProductDetail_checkSettles
  \/ ProductDetail_toggleSettles

SpecDetail == Init /\ [][DetailNext]_vars

\* ----------------------------------------------------------- getDeviceId
\* generateUUID: Crypto.randomUUID() gives a UUID no earlier call gave
generateUUID == uuids + 1

\* call k of getDeviceId has returned
Returned(k) == deviceCalls[k].pc = "returned"

\* getDeviceId is called: it runs up to await AsyncStorage.getItem
getDeviceId ==
  /\ Len(deviceCalls) < MaxDeviceCalls
  /\ deviceCalls' = Append(deviceCalls,
                           [pc |-> "getItem", deviceId |-> NoDeviceId])
  /\ overlapped' = (overlapped \/
                      \E k \in 1..Len(deviceCalls) : ~Returned(k))
  /\ UNCHANGED <<now, tapVars,
                 scrollVars, feedVars, favVars, formVars, provVars,
                 screenVars,
                 deviceStorage,
                 uuids, storageFailed>>

\* getDeviceId after getItem resolved with `stored`: return it, or generate
\* a UUID and run up to await AsyncStorage.setItem
AfterGetItem(stored) ==
  IF stored # NoDeviceId
    THEN [pc |-> "returned", deviceId |-> stored]
    ELSE [pc |-> "setItem", deviceId |-> generateUUID]

\* AsyncStorage.getItem of a call resolves with the stored value
GetItemResolves ==
  /\ \E k \in 1..Len(deviceCalls) :
       /\ deviceCalls[k].pc = "getItem"
       /\ deviceCalls' =
            [deviceCalls EXCEPT ![k] = AfterGetItem(deviceStorage)]
       /\ uuids' = IF deviceStorage = NoDeviceId THEN uuids + 1 ELSE uuids
  /\ UNCHANGED <<now, tapVars,
                 scrollVars, feedVars, favVars, formVars, provVars,
                 screenVars,
                 deviceStorage,
                 storageFailed, overlapped>>

\* AsyncStorage.setItem of a call stores its deviceId and resolves; the call
\* returns deviceId
SetItemResolves ==
  /\ \E k \in 1..Len(deviceCalls) :
       /\ deviceCalls[k].pc = "setItem"
       /\ deviceStorage' = deviceCalls[k].deviceId
       /\ deviceCalls' = [deviceCalls EXCEPT ![k].pc = "returned"]
  /\ UNCHANGED <<now, tapVars,
                 scrollVars, feedVars, favVars, formVars, provVars,
                 screenVars, uuids,
                 storageFailed, overlapped>>

\* getItem or setItem of a call rejects: the catch returns generateUUID()
StorageRejects ==
  /\ \E k \in 1..Len(deviceCalls) :
       /\ deviceCalls[k].pc \in {"getItem", "setItem"}
       /\ deviceCalls' = [deviceCalls EXCEPT
            ![k] = [pc |-> "returned", deviceId |-> generateUUID]]
  /\ uuids' = uuids + 1
  /\ storageFailed' = TRUE
  /\ UNCHANGED <<now, tapVars,
                 scrollVars, feedVars, favVars, formVars, provVars,
                 screenVars,
                 deviceStorage,
                 overlapped>>

DeviceNext ==
  \/ getDeviceId
  \/ GetItemResolves
  \/ SetItemResolves
  \/ StorageRejects

SpecDevice == Init /\ [][DeviceNext]_vars

\* ------------------------------------------------------ AddProductScreen
\* the texts typed into the title and the description field
TextValues == {<<>>, <<" ">>, <<"a">>}

\* the characters typed into the price field
PriceChars == {"1", ".", " ", "-", "a"}

\* onChangeText of the price field: the texts one key stroke makes of text,
\* a character typed at its end or its last character deleted
PriceValues(text) ==
  {Append(text, c) : c \in {d \in PriceChars : Len(text) < MaxPriceLen}}
    \cup {SubSeq(text, 1, Len(text) - 1)}

\* a category of the category list
SomeCategory == "Electronics"

\* String.prototype.trim, the leading white space
RECURSIVE TrimStart(_)
TrimStart(s) ==
  IF Len(s) > 0 /\ s[1] = " " THEN TrimStart(SubSeq(s, 2, Len(s))) ELSE s

\* String.prototype.trim, the trailing white space
RECURSIVE TrimEnd(_)
TrimEnd(s) ==
  IF Len(s) > 0 /\ s[Len(s)] = " "
    THEN TrimEnd(SubSeq(s, 1, Len(s) - 1))
    ELSE s

\* String.prototype.trim
trim(s) == TrimEnd(TrimStart(s))

\* u is an unsigned decimal literal: digits, at most one point, one digit
\* or more
IsUnsignedDecimal(u) ==
  /\ \A k \in 1..Len(u) : IsDigit(u[k]) \/ u[k] = "."
  /\ Cardinality({k \in 1..Len(u) : u[k] = "."}) <= 1
  /\ \E k \in 1..Len(u) : IsDigit(u[k])

\* t is a signed or unsigned decimal literal
IsStrDecimalLiteral(t) ==
  \/ IsUnsignedDecimal(t)
  \/ /\ Len(t) > 0
     /\ t[1] \in {"+", "-"}
     /\ IsUnsignedDecimal(SubSeq(t, 2, Len(t)))

\* isNaN(parseFloat(s)): parseFloat reads the longest numeric prefix
NumberIsNaN_parseFloat(s) ==
  \A k \in 1..Len(trim(s)) : ~IsStrDecimalLiteral(SubSeq(trim(s), 1, k))

\* isNaN(Number(s)) for s of the characters of PriceChars: Number gives 0
\* for white space only, the value of a decimal literal with white space
\* around it, and NaN otherwise
NumberIsNaN(s) ==
  Len(trim(s)) > 0 /\ ~IsStrDecimalLiteral(trim(s))

\* the message of the first check of validateForm that fails
ValidationAlert ==
  IF Len(trim(formData.title)) = 0 THEN "Please enter a product title."
  ELSE IF Len(trim(formData.price)) = 0 \/ NumberIsNaN(formData.price)
    THEN "Please enter a valid price."
  ELSE IF Len(trim(formData.description)) = 0
    THEN "Please enter a product description."
  ELSE IF selectedCategory = "" THEN "Please select a category."
  ELSE IF images = 0 THEN "Please add at least one photo."
  ELSE "none"

\* validateForm
validateForm == ValidationAlert = "none"

\* the form is on screen: the success alert leaves it with navigation.goBack
FormOpen == submission.stage # "listed"

\* updateField
updateField(field, value) ==
  /\ FormOpen
  /\ formData' = [formData EXCEPT ![field] = value]
  /\ UNCHANGED <<now, tapVars,
                 scrollVars, feedVars, favVars, deviceVars, provVars,
                 screenVars,
                 selectedCategory, images, isSubmitting, submission,
                 imageReads, createCalls, submits, lastAlert>>

\* a text field of the form changes
ChangeText ==
  \/ \E value \in TextValues : updateField("title", value)
  \/ \E value \in PriceValues(formData.price) : updateField("price", value)
  \/ \E value \in TextValues : updateField("description", value)

\* a category chip is pressed: setSelectedCategory(category)
SelectCategory ==
  /\ FormOpen
  /\ selectedCategory' = SomeCategory
  /\ UNCHANGED <<now, tapVars,
                 scrollVars, feedVars, favVars, deviceVars, provVars,
                 screenVars,
                 formData, images, isSubmitting, submission, imageReads,
                 createCalls, submits, lastAlert>>

\* handleTakePhoto / handlePickImage got a photo
AddImage ==
  /\ FormOpen
  /\ images < MaxImages
  /\ images' = images + 1
  /\ UNCHANGED <<now, tapVars,
                 scrollVars, feedVars, favVars, deviceVars, provVars,
                 screenVars,
                 formData, selectedCategory, isSubmitting, submission,
                 imageReads, createCalls, submits, lastAlert>>

\* handleRemoveImage
handleRemoveImage ==
  /\ FormOpen
  /\ images > 0
  /\ images' = images - 1
  /\ UNCHANGED <<now, tapVars,
                 scrollVars, feedVars, favVars, deviceVars, provVars,
                 screenVars,
                 formData, selectedCategory, isSubmitting, submission,
                 imageReads, createCalls, submits, lastAlert>>

\* handleSubmit up to its first await; the button is disabled while
\* isSubmitting
handleSubmit ==
  /\ FormOpen
  /\ ~isSubmitting
  /\ submits < MaxSubmits
  /\ submits' = submits + 1
  /\ IF ~validateForm
       THEN /\ lastAlert' = ValidationAlert
            /\ UNCHANGED <<isSubmitting, submission, imageReads>>
       ELSE /\ isSubmitting' = TRUE
            /\ submission' = [stage |-> "reading", left |-> images - 1]
            /\ imageReads' = imageReads + 1
            /\ UNCHANGED lastAlert
  /\ UNCHANGED <<now, tapVars,
                 scrollVars, feedVars, favVars, deviceVars, provVars,
                 screenVars,
                 formData, selectedCategory, images, createCalls>>

\* readAsStringAsync resolves: the next image is read, or getSellerProfile
\* is awaited
ReadResolves ==
  /\ submission.stage = "reading"
  /\ IF submission.left > 0
       THEN /\ submission' = [submission EXCEPT !.left = @ - 1]
            /\ imageReads' = imageReads + 1
       ELSE /\ submission' = [submission EXCEPT !.stage = "profile"]
            /\ UNCHANGED imageReads
  /\ UNCHANGED <<now, tapVars,
                 scrollVars, feedVars, favVars, deviceVars, provVars,
                 screenVars,
                 formData, selectedCategory, images, isSubmitting,
                 createCalls, submits, lastAlert>>

\* getSellerProfile resolves: createProduct is called
ProfileResolves ==
  /\ submission.stage = "profile"
  /\ submission' = [submission EXCEPT !.stage = "creating"]
  /\ createCalls' = createCalls + 1
  /\ UNCHANGED <<now, tapVars,
                 scrollVars, feedVars, favVars, deviceVars, provVars,
                 screenVars,
                 formData, selectedCategory, images, isSubmitting,
                 imageReads, submits, lastAlert>>

\* createProduct resolves
CreateResolves ==
  /\ submission.stage = "creating"
  /\ submission' = [stage |-> "listed", left |-> 0]
  /\ isSubmitting' = FALSE
  /\ lastAlert' = "Success!"
  /\ UNCHANGED <<now, tapVars,
                 scrollVars, feedVars, favVars, deviceVars, provVars,
                 screenVars,
                 formData, selectedCategory, images, imageReads,
                 createCalls, submits>>

\* the awaited call of handleSubmit rejects: its catch
SubmitRejects ==
  /\ submission.stage \in {"reading", "profile", "creating"}
  /\ submission' = Idle
  /\ isSubmitting' = FALSE
  /\ lastAlert' = "Error"
  /\ UNCHANGED <<now, tapVars,
                 scrollVars, feedVars, favVars, deviceVars, provVars,
                 screenVars,
                 formData, selectedCategory, images, imageReads,
                 createCalls, submits>>

FormNext ==
  \/ ChangeText
  \/ SelectCategory
  \/ AddImage
  \/ handleRemoveImage
  \/ handleSubmit
  \/ ReadResolves
  \/ ProfileResolves
  \/ CreateResolves
  \/ SubmitRejects

SpecForm == Init /\ [][FormNext]_vars

\* ----------------------------------------------------- FavoritesProvider
\* the ids of the products the functions of the provider are called with
ProviderIds == {ProductId, "p2"}

\* addToFavorites without its prev.some check
addToFavorites_unchecked(list, id) == Append(list, id)

\* FavoritesProvider.addToFavorites: the updater applied to the list
addToFavorites(list, id) ==
  IF HasId(list, id) THEN list ELSE Append(list, id)

\* FavoritesProvider.removeFromFavorites: the updater applied to the list
removeFromFavorites(list, id) == RemoveId(list, id)

\* FavoritesProvider.isFavorite
isFavorite(id) == HasId(favorites, id)

\* the wasAdded that toggleFavorite returns: the updater assigns it, and
\* React runs the updater either inside setFavorites, before the return, or
\* in the next render, after it
wasAdded(list, id, ran) == IF ran THEN ~HasId(list, id) ELSE FALSE

\* a function of the provider is called with the product of id `id` and its
\* state update is applied; the other state of ReelItem is left alone
ProviderCall(op, id, list, returned, ran) ==
  /\ Len(providerLog) < MaxProviderCalls
  /\ favorites' = list
  /\ providerLog' = Append(providerLog,
       [op |-> op, id |-> id, before |-> HasId(favorites, id),
        after |-> HasId(list, id), ran |-> ran, returned |-> returned])
  /\ UNCHANGED <<now, lastTapRef, tapTimeoutRef, timers, taps, tapIdle,
                 callbacks, scrollVars, feedVars, favVars, deviceVars,
                 formVars, screenVars>>

\* addToFavorites(product)
CallAddToFavorites ==
  \E id \in ProviderIds :
    ProviderCall("addToFavorites", id, addToFavorites(favorites, id),
                 FALSE, FALSE)

\* removeFromFavorites(productId)
CallRemoveFromFavorites ==
  \E id \in ProviderIds :
    ProviderCall("removeFromFavorites", id,
                 removeFromFavorites(favorites, id), FALSE, FALSE)

\* toggleFavorite(product)
CallToggleFavorite ==
  \E id \in ProviderIds : \E ran \in BOOLEAN :
    ProviderCall("toggleFavorite", id, toggleFavorite(favorites, id),
                 wasAdded(favorites, id, ran), ran)

ProviderNext ==
  \/ CallAddToFavorites
  \/ CallRemoveFromFavorites
  \/ CallToggleFavorite

SpecProvider == Init /\ [][ProviderNext]_vars

\* ------------------------------------------------- tap history, read back
\* callbacks of kind k fired for tap i
NumCb(k, i) ==
  Cardinality({j \in 1..Len(callbacks) :
                 callbacks[j].kind = k /\ callbacks[j].tap = i})

\* no setTimeout callback scheduled by tap i is still pending
Settled(i) == \A t \in timers : t.tap # i

\* tap i opens a sequence: it is the first tap, or it comes DOUBLE_TAP_DELAY
\* or more after tap i-1, or tap i-1 completed a double tap
RECURSIVE StartsSequence(_)
StartsSequence(i) ==
  \/ i = 1
  \/ taps[i] - taps[i-1] >= DOUBLE_TAP_DELAY
  \/ ~StartsSequence(i-1)

\* no tap in the DOUBLE_TAP_DELAY before tap i
QuietBefore(i) == i > 1 => taps[i] - taps[i-1] >= DOUBLE_TAP_DELAY

\* no tap in the DOUBLE_TAP_DELAY after tap i
QuietAfter(i) == i < Len(taps) => taps[i+1] - taps[i] >= DOUBLE_TAP_DELAY

\* every onSingleTap of tap i fired DOUBLE_TAP_DELAY or more after the tap
FiredLate(i) ==
  \A j \in 1..Len(callbacks) :
    (callbacks[j].kind = "onSingleTap" /\ callbacks[j].tap = i)
      => callbacks[j].at >= taps[i] + DOUBLE_TAP_DELAY

\* C1: an isolated tap (no tap in the 300 ms before it, none in the 300 ms
\* after it) fires no toggleFavorite, neither itself nor through the tap that
\* follows it, at most one onSingleTap, never earlier than 300 ms after the
\* tap, and exactly one once its timer is no longer pending.
C1_IsolatedTap ==
  \A i \in 1..Len(taps) :
    (QuietBefore(i) /\ QuietAfter(i)) =>
      /\ NumCb("toggleFavorite", i) = 0
      /\ (i < Len(taps) => NumCb("toggleFavorite", i+1) = 0)
      /\ NumCb("onSingleTap", i) <= 1
      /\ FiredLate(i)
      /\ (Settled(i) => NumCb("onSingleTap", i) = 1)

\* an isolated tap between two other taps has had its single-tap callback
C1_Witness ==
  \E i \in 2..(Len(taps) - 1) :
    /\ QuietBefore(i) /\ QuietAfter(i)
    /\ Settled(i)
    /\ NumCb("onSingleTap", i) = 1

\* C2: when tap i opens a sequence and tap i+1 comes less than 300 ms after
\* it, exactly one toggleFavorite fires (at tap i+1), no onSingleTap fires
\* for either tap, and the timer of tap i is cancelled: it is not pending.
C2_DoubleTap ==
  \A i \in 1..(Len(taps) - 1) :
    (StartsSequence(i) /\ taps[i+1] - taps[i] < DOUBLE_TAP_DELAY) =>
      /\ NumCb("toggleFavorite", i) = 0
      /\ NumCb("toggleFavorite", i+1) = 1
      /\ NumCb("onSingleTap", i) = 0
      /\ NumCb("onSingleTap", i+1) = 0
      /\ Settled(i)
      /\ Settled(i+1)

\* a double tap whose first tap had its timer pending, seen after the time
\* at which that timer would have run
C2_Witness ==
  \E i \in 1..(Len(taps) - 1) :
    /\ StartsSequence(i)
    /\ taps[i+1] - taps[i] < DOUBLE_TAP_DELAY
    /\ taps[i+1] > taps[i]
    /\ now > taps[i] + DOUBLE_TAP_DELAY
    /\ NumCb("toggleFavorite", i+1) = 1

\* C3: when tap i opens a sequence, tap i+1 comes 300 ms or more after it
\* and no tap follows tap i+1 within 300 ms, no toggleFavorite fires for
\* either tap, each tap has at most one onSingleTap, and exactly one once
\* its timer is no longer pending: two onSingleTap callbacks in all.
C3_TwoSingleTaps ==
  \A i \in 1..(Len(taps) - 1) :
    (/\ StartsSequence(i)
     /\ taps[i+1] - taps[i] >= DOUBLE_TAP_DELAY
     /\ QuietAfter(i+1)) =>
      /\ NumCb("toggleFavorite", i) = 0
      /\ NumCb("toggleFavorite", i+1) = 0
      /\ (i + 1 < Len(taps) => NumCb("toggleFavorite", i+2) = 0)
      /\ NumCb("onSingleTap", i) <= 1
      /\ NumCb("onSingleTap", i+1) <= 1
      /\ ((Settled(i) /\ Settled(i+1)) =>
            NumCb("onSingleTap", i) + NumCb("onSingleTap", i+1) = 2)

\* two taps exactly DOUBLE_TAP_DELAY apart, both single-tap callbacks fired
C3_Witness ==
  \E i \in 1..(Len(taps) - 1) :
    /\ StartsSequence(i)
    /\ taps[i+1] - taps[i] = DOUBLE_TAP_DELAY
    /\ QuietAfter(i+1)
    /\ Settled(i) /\ Settled(i+1)
    /\ NumCb("onSingleTap", i) = 1
    /\ NumCb("onSingleTap", i+1) = 1

\* C4: three rapid taps i, i+1, i+2 (each less than 300 ms after the one
\* before) arriving at an item with no timer pending, as after mounting:
\* tap i+1 cancels the timer of tap i, fires toggleFavorite once and leaves
\* lastTapRef at the sentinel 0; tap i+2 fires no toggleFavorite and starts
\* a single-tap sequence of its own, so that, with no tap pairing with the
\* third, one toggleFavorite and, once the timer of tap i+2 has run, one
\* onSingleTap (of tap i+2) occur.
C4_TripleTap ==
  \A i \in 1..(Len(taps) - 1) :
    (/\ tapIdle[i]
     /\ StartsSequence(i)
     /\ taps[i+1] - taps[i] < DOUBLE_TAP_DELAY) =>
      /\ (Len(taps) = i + 1 => lastTapRef = 0)
      /\ (/\ i + 2 <= Len(taps)
          /\ taps[i+2] - taps[i+1] < DOUBLE_TAP_DELAY
          /\ QuietAfter(i+2)) =>
           /\ NumCb("toggleFavorite", i) + NumCb("toggleFavorite", i+1)
                + NumCb("toggleFavorite", i+2) = 1
           /\ NumCb("toggleFavorite", i+1) = 1
           /\ NumCb("onSingleTap", i) = 0
           /\ NumCb("onSingleTap", i+1) = 0
           /\ Settled(i)
           /\ NumCb("onSingleTap", i+2) <= 1
           /\ FiredLate(i+2)
           /\ (Settled(i+2) => NumCb("onSingleTap", i+2) = 1)

\* three rapid taps at three different times, the third one's callback fired
C4_Witness ==
  \E i \in 1..(Len(taps) - 2) :
    /\ tapIdle[i]
    /\ StartsSequence(i)
    /\ taps[i] < taps[i+1] /\ taps[i+1] < taps[i+2]
    /\ taps[i+2] - taps[i] < DOUBLE_TAP_DELAY
    /\ QuietAfter(i+2)
    /\ NumCb("toggleFavorite", i+1) = 1
    /\ NumCb("onSingleTap", i+2) = 1

\* --------------------------------------------- overscroll history, read back
\* a scroll-end event qualifies: the list is within 50 units of the bottom
\* and the vertical end velocity is present and strictly below -0.5
Qualifies(e) ==
  /\ e.height + e.offset >= e.content - 50
  /\ e.hasVelocity
  /\ e.velocityY < -5

\* time between qualifying attempt i and the one before it
Gap(i) == attempts[i].at - attempts[i-1].at

\* attempt i starts a count: the counter was 0 when it arrived
StartsCount(i) == attempts[i].before = 0

\* unlocks fired by attempts i..j
Fired(i, j) == Cardinality({k \in i..j : attempts[k].fired})

\* C5: three qualifying attempts i, i+1, i+2 that start a count and lie
\* within the 3000 ms window fire the unlock exactly once, on the third,
\* and the counter is 0 right after it.
C5_ThreeWithinWindow ==
  \A i \in 1..(Len(attempts) - 2) :
    (/\ StartsCount(i)
     /\ attempts[i+2].at - attempts[i].at <= OVERSCROLL_WINDOW) =>
      /\ ~attempts[i].fired
      /\ ~attempts[i+1].fired
      /\ attempts[i+2].fired
      /\ attempts[i+2].after = 0
      /\ attempts[i+2].at \in {unlocks[k] : k \in 1..Len(unlocks)}
      /\ (Len(attempts) = i + 2 => overscrollCountRef = 0)

\* three attempts at three different times within the window have unlocked
C5_Witness ==
  /\ Len(attempts) = 3
  /\ attempts[1].at < attempts[2].at
  /\ attempts[2].at < attempts[3].at
  /\ attempts[3].at - attempts[1].at <= OVERSCROLL_WINDOW
  /\ Len(unlocks) = 1
  /\ overscrollCountRef = 0
  /\ screen = "UpsideDown"

\* C6: two qualifying attempts, a gap of more than 3000 ms, then two more:
\* the unlock fires at none of the four, the counter is 1, 2, 1, 2 after
\* them, so its maximum is 2, reached twice.
C6_TwoGapTwo ==
  \A i \in 1..(Len(attempts) - 3) :
    (/\ StartsCount(i)
     /\ Gap(i+1) <= OVERSCROLL_WINDOW
     /\ Gap(i+2) > OVERSCROLL_WINDOW
     /\ Gap(i+3) <= OVERSCROLL_WINDOW) =>
      /\ Fired(i, i+3) = 0
      /\ attempts[i].after = 1
      /\ attempts[i+1].after = 2
      /\ attempts[i+2].after = 1
      /\ attempts[i+3].after = 2
      /\ \A k \in i..(i+3) : attempts[k].after <= 2

\* two attempts, a gap above the window, two more, and still no unlock
C6_Witness ==
  /\ Len(attempts) = 4
  /\ Gap(2) <= OVERSCROLL_WINDOW
  /\ Gap(3) > OVERSCROLL_WINDOW
  /\ Gap(4) <= OVERSCROLL_WINDOW
  /\ unlocks = <<>>
  /\ overscrollCountRef = 2

\* C7: a qualifying attempt more than 3000 ms after the previous qualifying
\* attempt (or the first one after mounting) leaves the counter at 1 whatever
\* it was before and does not unlock; so attempts i, i+1, i+2 that start a
\* count, with the third more than 3000 ms after the second, never unlock.
C7_StaleReset ==
  /\ \A i \in 1..Len(attempts) :
       (i = 1 \/ Gap(i) > OVERSCROLL_WINDOW) =>
         /\ attempts[i].after = 1
         /\ ~attempts[i].fired
  /\ \A i \in 1..(Len(attempts) - 2) :
       (StartsCount(i) /\ Gap(i+2) > OVERSCROLL_WINDOW) => Fired(i, i+2) = 0

\* an attempt that found the counter at 2 and left it at 1
C7_Witness ==
  \E i \in 3..Len(attempts) :
    /\ Gap(i) > OVERSCROLL_WINDOW
    /\ attempts[i].before = 2
    /\ attempts[i].after = 1
    /\ unlocks = <<>>

\* C8: a scroll-end event that does not qualify leaves the counter, the
\* last-attempt timestamp, the unlocks and the screen unchanged.
C8_NonQualifyingFrame ==
  [][(\E e \in ScrollEvents : ~Qualifies(e) /\ handleScrollEndDrag(e)) =>
       UNCHANGED <<overscrollCountRef, lastOverscrollRef, haptics, unlocks,
                   screen, attempts>>]_vars

\* a non-qualifying event was handled while the counter stood at 2
C8_Witness ==
  /\ lastEvent.seen
  /\ ~Qualifies(lastEvent)
  /\ overscrollCountRef = 2
  /\ Len(attempts) = 2

\* C9: the latest scroll-end event was counted as an overscroll attempt
\* exactly when it qualifies.
C9_CountedIffQualifies ==
  lastEvent.seen => (lastEvent.counted <=> Qualifies(lastEvent))

\* an event at the bottom with velocity exactly -0.5 was not counted
C9_Witness ==
  /\ lastEvent.seen
  /\ lastEvent.height + lastEvent.offset >= lastEvent.content - 50
  /\ lastEvent.hasVelocity
  /\ lastEvent.velocityY = -5
  /\ ~lastEvent.counted
  /\ Len(attempts) = 1
  /\ haptics = 1

\* ------------------------------------------------------- feed, read back
\* the ids of the products list
ProductIds == {products[k].id : k \in 1..Len(products)}

\* C10: the looped feed has LOOP_MULTIPLIER entries per product, its ids are
\* pairwise distinct, and getOriginalProductId of every entry's id is the id
\* of one of the products, whatever ids convertToProduct produced.
C10_FeedLooping ==
  /\ Len(loopedProducts) = LOOP_MULTIPLIER * Len(products)
  /\ \A j, k \in 1..Len(loopedProducts) :
       j # k => loopedProducts[j].id # loopedProducts[k].id
  /\ \A k \in 1..Len(loopedProducts) :
       getOriginalProductId(loopedProducts[k].id) \in ProductIds

\* the part of C10 the feed keeps: size and distinct ids, and the original
\* id recovered for every product whose id is not empty
C10_NonEmptyIds ==
  /\ Len(loopedProducts) = LOOP_MULTIPLIER * Len(products)
  /\ \A j, k \in 1..Len(loopedProducts) :
       j # k => loopedProducts[j].id # loopedProducts[k].id
  /\ \A k \in 1..Len(loopedProducts) :
       LET src == products[((k - 1) % Len(products)) + 1].id
       IN  src # <<>> => getOriginalProductId(loopedProducts[k].id) = src

\* C12: the feed is emitted pass by pass: the entry at position i*M+idx
\* (counted from 0) is shuffled[idx] with the identifier
\* <originalId>_loop<i>_<idx> and the other fields unchanged; for the
\* products a, b the feed starts a_loop0_0, b_loop0_1, a_loop1_0, b_loop1_1.
C12_LoopByLoop ==
  LET M == Len(products) IN
  /\ \A i \in 0..(LOOP_MULTIPLIER - 1) : \A idx \in 0..(M - 1) :
       /\ i * M + idx + 1 <= Len(loopedProducts)
       /\ loopedProducts[i * M + idx + 1].id =
            products[idx + 1].id \o <<"_", "l", "o", "o", "p">>
              \o NumberToString(i) \o <<"_">> \o NumberToString(idx)
       /\ loopedProducts[i * M + idx + 1].title = products[idx + 1].title
  /\ (M = 2 /\ products[1].id = <<"a">> /\ products[2].id = <<"b">>) =>
       /\ loopedProducts[1].id = <<"a", "_", "l", "o", "o", "p", "0", "_", "0">>
       /\ loopedProducts[2].id = <<"b", "_", "l", "o", "o", "p", "0", "_", "1">>
       /\ loopedProducts[3].id = <<"a", "_", "l", "o", "o", "p", "1", "_", "0">>
       /\ loopedProducts[4].id = <<"b", "_", "l", "o", "o", "p", "1", "_", "1">>

\* the feed of the products a, b has been built
C12_Witness ==
  /\ Len(products) = 2
  /\ products[1].id = <<"a">>
  /\ products[2].id = <<"b">>
  /\ Len(loopedProducts) = 2 * LOOP_MULTIPLIER
  /\ ~loading

\* C13 as stated: every rejected fetch leaves the feed empty and starts no
\* further fetch.
C13_FailureEmptiesFeed ==
  [][(loadErrors' = loadErrors + 1) =>
       /\ products' = <<>>
       /\ loopedProducts' = <<>>
       /\ pendingLoads' = pendingLoads - 1]_vars

\* C13, amended: a rejected fetch leaves the feed as it was before the load
\* (empty if nothing was loaded before, the products loaded earlier
\* otherwise), ends the loading and refreshing indicators and starts no
\* further fetch: the number of fetches in flight goes down by one.
C13_FailureKeepsFeed ==
  [][(loadErrors' = loadErrors + 1) =>
       /\ products' = products
       /\ loopedProducts' = loopedProducts
       /\ pendingLoads' = pendingLoads - 1
       /\ ~loading'
       /\ ~refreshing']_vars

\* a reload was rejected after an earlier load had filled the feed, and no
\* fetch is in flight
C13_Witness ==
  /\ lastLoadFailed
  /\ Len(products) > 0
  /\ Len(loopedProducts) > 0
  /\ pendingLoads = 0

\* C14: a visibility-change callback sets currentIndex to the index of the
\* first reported item, and leaves it unchanged when the report is empty or
\* its first item has a null index; at most one feed position is active.
C14_ActiveIndex ==
  /\ [][\A v \in ViewableReports :
          onViewableItemsChanged(v) =>
            IF v = <<>> THEN currentIndex' = currentIndex
            ELSE IF v[1].isNull THEN currentIndex' = currentIndex
            ELSE currentIndex' = v[1].index]_vars
  /\ [](Cardinality({k \in 0..(Len(loopedProducts) - 1) : isActive(k)}) <= 1)

\* the last feed position became the active one through a callback
C14_Witness ==
  /\ Len(loopedProducts) = 2 * LOOP_MULTIPLIER
  /\ currentIndex = Len(loopedProducts) - 1
  /\ isActive(2 * LOOP_MULTIPLIER - 1)
  /\ ~isActive(0)

\* ------------------------------------------- remote favorites, read back
\* the ids of the remote calls the feed item has issued
ItemCallIds ==
  {remoteCalls[j].id : j \in {k \in 1..Len(remoteCalls) :
                                remoteCalls[k].from = "item"}}

\* the ids of the products handleViewDetails gave to onViewDetails
DetailIds == {detailNav[j] : j \in 1..Len(detailNav)}

\* C11: every remote call of a feed item (checkIsFavorite, addFavorite,
\* removeFavorite) and every product given to onViewDetails carries the id
\* of the product the feed entry copies, never the id of the feed entry.
C11_OriginalIds ==
  \A id \in ItemCallIds \cup DetailIds : id = itemSource /\ id # itemId

\* the same for the feed entries of products whose id is not empty
C11_NonEmptyIds ==
  itemSource # <<>> =>
    \A id \in ItemCallIds \cup DetailIds : id = itemSource /\ id # itemId

\* call c of the feed item's toggleFavoriteAPI settles in this step as failed
ToggleFails(c) ==
  /\ c \in inflight
  /\ c \notin inflight'
  /\ c.from = "item"
  /\ c.kind # "check"
  /\ c.stage = "failed"

\* C15: a press of the feed item's favorite button flips favorited in the
\* same step, while every call is still unresolved, and a failed add/remove
\* call leaves favorited as it is and only logs one error.
C15_OptimisticNoRollback ==
  [][/\ (Len(itemPresses') = Len(itemPresses) + 1) =>
          /\ favorited' = ~favorited
          /\ inflight \subseteq inflight'
          /\ itemErrors' = itemErrors
     /\ \A c \in inflight : ToggleFails(c) =>
          /\ favorited' = favorited
          /\ itemErrors' = itemErrors + 1
          /\ serverFavorite' = serverFavorite]_vars

\* a single press whose add call failed: the item shows a favorite the
\* server does not have, and one error is logged
C15_Witness ==
  /\ Len(itemPresses) = 1
  /\ Len(remoteCalls) = 1
  /\ remoteCalls[1] = [from |-> "item", kind |-> "add", id |-> itemSource]
  /\ inflight = {}
  /\ itemErrors = 1
  /\ favorited
  /\ itemSource \notin serverFavorite

\* C16 as stated: every press of a favorite toggle, on the feed item or on
\* the grid, issues exactly one remote call, also while an earlier toggle of
\* the same component is in flight.
C16_OneCallPerToggle ==
  [][(Presses' = Presses + 1) =>
       Len(remoteCalls') = Len(remoteCalls) + 1]_vars

\* the remote call issued in this step is a toggle call of `from` for id
IssuesToggle(from, id) ==
  /\ Len(remoteCalls') = Len(remoteCalls) + 1
  /\ SubSeq(remoteCalls', 1, Len(remoteCalls)) = remoteCalls
  /\ remoteCalls'[Len(remoteCalls')].from = from
  /\ remoteCalls'[Len(remoteCalls')].kind \in {"add", "remove"}
  /\ remoteCalls'[Len(remoteCalls')].id = id

\* C16, amended: a press on the grid issues exactly one add or remove call,
\* also while an earlier grid toggle is in flight; a press on the feed item
\* issues exactly one while no toggle of the item is in flight and none
\* while one is.
C16_GuardedFeedToggle ==
  [][/\ (Len(gridPresses') = Len(gridPresses) + 1) =>
          IssuesToggle("grid", GridProductId)
     /\ (Len(itemPresses') = Len(itemPresses) + 1) =>
          IF TogglePending("item")
            THEN remoteCalls' = remoteCalls /\ inflight' = inflight
            ELSE IssuesToggle("item", originalProductId)]_vars

\* the feed item and the grid have both been pressed while an earlier toggle
\* of theirs was in flight
C16_Witness ==
  /\ \E j \in 1..Len(itemPresses) : itemPresses[j].inFlight
  /\ \E j \in 1..Len(gridPresses) : gridPresses[j].inFlight

\* ------------------------------------------------- getDeviceId, read back
\* the ids the getDeviceId calls have returned
ReturnedIds ==
  {deviceCalls[k].deviceId : k \in {j \in 1..Len(deviceCalls) : Returned(j)}}

\* C17: as long as no storage operation fails, at most one UUID is ever
\* generated and all getDeviceId calls return the same id, also calls that
\* overlap before the first setItem has completed.
C17_GeneratedOnce ==
  ~storageFailed => (uuids <= 1 /\ Cardinality(ReturnedIds) <= 1)

\* the same for calls that do not overlap
C17_Sequential ==
  (~storageFailed /\ ~overlapped) =>
    (uuids <= 1 /\ Cardinality(ReturnedIds) <= 1)

\* --------------------------------------------- add-listing form, read back
\* s has no character other than white space
OnlySpaces(s) == \A k \in 1..Len(s) : s[k] = " "

\* s reads as a number: white space, an optional sign, digits with at most
\* one decimal point and at least one digit, white space
ReadsAsNumber(s) ==
  \E a \in 1..Len(s) : \E b \in a..Len(s) :
    /\ OnlySpaces(SubSeq(s, 1, a - 1))
    /\ OnlySpaces(SubSeq(s, b + 1, Len(s)))
    /\ \E c \in {a, a + 1} :
         /\ c <= b
         /\ c = a + 1 => s[a] \in {"+", "-"}
         /\ \A k \in c..b : IsDigit(s[k]) \/ s[k] = "."
         /\ \A j, k \in c..b : (s[j] = "." /\ s[k] = ".") => j = k
         /\ \E k \in c..b : IsDigit(s[k])

\* the form has one of the validation errors: empty title, empty or
\* non-numeric price, empty description, no category, no image
HasValidationError ==
  \/ OnlySpaces(formData.title)
  \/ OnlySpaces(formData.price)
  \/ ~ReadsAsNumber(formData.price)
  \/ OnlySpaces(formData.description)
  \/ selectedCategory = ""
  \/ images = 0

\* C18: a handleSubmit on a form with a validation error (empty title,
\* empty or non-numeric price, empty description, no category, no image)
\* calls neither createProduct nor readAsStringAsync, starts no submission,
\* leaves isSubmitting false and shows a validation alert; validateForm
\* fails for exactly these forms.
C18_ValidationFirst ==
  /\ [][(submits' = submits + 1 /\ HasValidationError) =>
          /\ createCalls' = createCalls
          /\ imageReads' = imageReads
          /\ submission' = submission
          /\ ~isSubmitting'
          /\ lastAlert' \notin {"none", "Success!", "Error"}]_vars
  /\ [](validateForm <=> ~HasValidationError)

\* a submit of a complete form but for a price that is not a number was
\* answered with the price alert, and nothing was read or sent
C18_Witness ==
  /\ submits > 0
  /\ lastAlert = "Please enter a valid price."
  /\ ~OnlySpaces(formData.title)
  /\ ~OnlySpaces(formData.price)
  /\ ~ReadsAsNumber(formData.price)
  /\ ~OnlySpaces(formData.description)
  /\ selectedCategory # ""
  /\ images > 0
  /\ imageReads = 0
  /\ createCalls = 0
  /\ ~isSubmitting

\* ------------------------------------------- FavoritesProvider, read back
\* C19: the favorites list never holds an id twice, whatever addToFavorites,
\* removeFromFavorites and toggleFavorite calls were made, and isFavorite(id)
\* is true exactly for the ids in the list.
C19_NoDuplicateFavorites ==
  /\ \A j, k \in 1..Len(favorites) : favorites[j] = favorites[k] => j = k
  /\ \A id \in ProviderIds :
       isFavorite(id) <=> id \in {favorites[k] : k \in 1..Len(favorites)}

\* addToFavorites was called for a product already in the list, and the list
\* holds both products
C19_Witness ==
  /\ \E j \in 1..Len(providerLog) :
       providerLog[j].op = "addToFavorites" /\ providerLog[j].before
  /\ Len(favorites) = 2
  /\ isFavorite(ProductId)
  /\ isFavorite("p2")

\* C20: every toggleFavorite call returns true when it added the product
\* and false when it removed it, and a second toggle of the same product
\* right after the first restores the membership.
C20_ToggleReturn ==
  /\ \A j \in 1..Len(providerLog) :
       providerLog[j].op = "toggleFavorite" =>
         /\ providerLog[j].after = ~providerLog[j].before
         /\ providerLog[j].returned = providerLog[j].after
  /\ \A j \in 1..(Len(providerLog) - 1) :
       (/\ providerLog[j].op = "toggleFavorite"
        /\ providerLog[j + 1].op = "toggleFavorite"
        /\ providerLog[j + 1].id = providerLog[j].id) =>
         providerLog[j + 1].after = providerLog[j].before

\* the same, with the returned value only for the calls whose updater ran
\* before the return, and false for the others
C20_ToggleReturnWhenRun ==
  /\ \A j \in 1..Len(providerLog) :
       providerLog[j].op = "toggleFavorite" =>
         /\ providerLog[j].after = ~providerLog[j].before
         /\ providerLog[j].returned =
              (providerLog[j].ran /\ providerLog[j].after)
  /\ \A j \in 1..(Len(providerLog) - 1) :
       (/\ providerLog[j].op = "toggleFavorite"
        /\ providerLog[j + 1].op = "toggleFavorite"
        /\ providerLog[j + 1].id = providerLog[j].id) =>
         providerLog[j + 1].after = providerLog[j].before

\* ------------------------------------------ tap and overscroll boundaries
\* C22: a tap handled exactly DOUBLE_TAP_DELAY after the previous tap fires
\* no toggleFavorite and changes no favorite, cancels no pending timer, and
\* schedules one new single-tap timer, due DOUBLE_TAP_DELAY later.
C22_BoundaryTap ==
  [][(/\ Len(taps) >= 1
      /\ Len(taps') = Len(taps) + 1
      /\ now - taps[Len(taps)] = DOUBLE_TAP_DELAY) =>
        /\ callbacks' = callbacks
        /\ favorites' = favorites
        /\ timers \subseteq timers'
        /\ timers' \ timers =
             {[id |-> Len(taps'), due |-> now + DOUBLE_TAP_DELAY,
               tap |-> Len(taps')]}
        /\ tapTimeoutRef' = Len(taps')
        /\ lastTapRef' = now]_vars

\* two taps exactly DOUBLE_TAP_DELAY apart, the second handled before the
\* callback of the first: both single-tap timers are pending
C22_Witness ==
  /\ Len(taps) = 2
  /\ taps[2] - taps[1] = DOUBLE_TAP_DELAY
  /\ callbacks = <<>>
  /\ Cardinality(timers) = 2
  /\ \E t \in timers : t.tap = 1 /\ t.due = taps[2]
  /\ \E t \in timers : t.tap = 2 /\ t.due = taps[2] + DOUBLE_TAP_DELAY

\* C23: after every scroll-end handler the overscroll counter is 0, 1 or 2,
\* and a qualifying attempt unlocks exactly when it finds the counter at 2
\* with the window not expired, which leaves the counter at 0.
C23_TwoStateCounter ==
  /\ overscrollCountRef \in 0..2
  /\ \A i \in 1..Len(attempts) :
       /\ attempts[i].before \in 0..2
       /\ attempts[i].after \in 0..2
       /\ attempts[i].fired <=>
            (i > 1 /\ attempts[i].before = 2 /\ Gap(i) <= OVERSCROLL_WINDOW)
       /\ attempts[i].fired => attempts[i].after = 0
       /\ ~attempts[i].fired => attempts[i].after \in 1..2

\* the counter went 1, 2, unlock, and a fourth attempt counts from 1 again
C23_Witness ==
  /\ Len(attempts) = 4
  /\ attempts[1].after = 1
  /\ attempts[2].after = 2
  /\ attempts[3].before = 2
  /\ attempts[3].fired
  /\ attempts[4].before = 0
  /\ attempts[4].after = 1
  /\ overscrollCountRef = 1

\* C24: when attempt i leaves the counter at 1 and each of the next two
\* attempts comes at most 3000 ms after the one before it, the third
\* unlocks, however far it is from the first; an attempt exactly 3000 ms
\* after the previous one counts on from the counter it finds.
C24_ConsecutiveGaps ==
  /\ \A i \in 1..(Len(attempts) - 2) :
       (/\ attempts[i].after = 1
        /\ Gap(i+1) <= OVERSCROLL_WINDOW
        /\ Gap(i+2) <= OVERSCROLL_WINDOW) =>
         /\ attempts[i+1].after = 2
         /\ attempts[i+2].fired
  /\ \A i \in 2..Len(attempts) :
       Gap(i) = OVERSCROLL_WINDOW =>
         IF attempts[i].before = 2
           THEN attempts[i].fired
           ELSE attempts[i].after = attempts[i].before + 1

\* three attempts, the second exactly 3000 ms after the first, the third
\* more than 3000 ms after the first, and the third unlocked
C24_Witness ==
  /\ Len(attempts) = 3
  /\ Gap(2) = OVERSCROLL_WINDOW
  /\ Gap(3) <= OVERSCROLL_WINDOW
  /\ attempts[3].at - attempts[1].at > OVERSCROLL_WINDOW
  /\ attempts[3].fired
  /\ Len(unlocks) = 1

\* C29: at most one single-tap timer is pending, tapTimeoutRef holds the
\* handle of the pending one, and right after a double tap no single-tap
\* timer is pending.
C29_OnePendingTimer ==
  /\ [](Cardinality(timers) <= 1)
  /\ [](\A t \in timers : tapTimeoutRef = t.id)
  /\ [][(Len(callbacks') = Len(callbacks) + 1
           /\ callbacks'[Len(callbacks')].kind = "toggleFavorite") =>
          timers' = {}]_vars

\* ------------------------------------------------- looped feed after loads
\* C30: the looped feed is LOOP_MULTIPLIER copies of the products of the same
\* load, and while it is non-empty currentIndex is one of its positions.
C30_LoopedFeedIndex ==
  /\ Len(loopedProducts) = LOOP_MULTIPLIER * Len(products)
  /\ loopedProducts = Looped(products)
  /\ Len(loopedProducts) > 0 =>
       currentIndex \in 0..(Len(loopedProducts) - 1)

\* the part of C30 that holds: both lists always come from the same load
C30_SameLoad ==
  /\ Len(loopedProducts) = LOOP_MULTIPLIER * Len(products)
  /\ loopedProducts = Looped(products)

\* ------------------------------------------- favorites against the server
\* C27: on a feed item none of whose calls failed, once no call is in
\* flight, favorited says whether the server holds the favorite.
C27_FeedAgreesWithServer ==
  (itemMounted /\ inflight = {} /\ itemErrors = 0) =>
    (favorited <=> originalProductId \in serverFavorite)

\* C26: a grid changes favoriteIds only when a call of its own settles with
\* success, to what that call asked for; and when no call failed and only
\* the grid has toggled, once no call is in flight the product is in
\* favoriteIds exactly if the server holds the favorite.
C26_GridAgreesWithServer ==
  /\ [][gridFavorite' # gridFavorite =>
          \E c \in inflight :
            /\ c.from = "grid" /\ c.stage = "ok"
            /\ inflight' = inflight \ {c}
            /\ gridFavorite' = (c.kind = "add")]_vars
  /\ []((inflight = {} /\ gridErrors = 0 /\ itemPresses = <<>>) =>
          (gridFavorite <=> GridProductId \in serverFavorite))

\* the part of C26 that holds: favoriteIds changes on success only
C26_ChangedOnSuccess ==
  [][/\ gridFavorite' # gridFavorite =>
          \E c \in inflight :
            /\ c.from = "grid" /\ c.stage = "ok"
            /\ inflight' = inflight \ {c}
            /\ gridFavorite' = (c.kind = "add")
     /\ gridErrors' # gridErrors => gridFavorite' = gridFavorite]_vars

\* ------------------------------------------ product detail toggles
\* the toggle calls of the product detail screen that have not settled
DetailToggles == {c \in inflight : c.from = "detail" /\ c.kind # "check"}

\* C25: the product detail screen never has two toggle calls in flight and
\* isTogglingFavorite is set exactly while one is; a press made while it is
\* set issues no call; isFavorited changes only in a step that settles a
\* successful call and a failed call leaves it alone; the step that settles
\* a toggle call clears isTogglingFavorite.
C25_OneToggleInFlight ==
  /\ [](Cardinality(DetailToggles) <= 1)
  /\ [](detailToggling <=> DetailToggles # {})
  /\ [][(Len(detailPresses') = Len(detailPresses) + 1 /\ detailToggling) =>
          remoteCalls' = remoteCalls /\ inflight' = inflight]_vars
  /\ [][isFavorited' # isFavorited =>
          \E c \in inflight :
            /\ c.from = "detail" /\ c.stage = "ok"
            /\ inflight' = inflight \ {c}
            /\ c.kind # "check" => isFavorited' = (c.kind = "add")]_vars
  /\ [][detailErrors' # detailErrors => isFavorited' = isFavorited]_vars
  /\ [][Cardinality(DetailToggles') < Cardinality(DetailToggles) =>
          ~detailToggling']_vars

\* two presses and one toggle call: the second press came while the call was
\* in flight; the call failed, isFavorited kept its value and the flag is
\* cleared
C25_Witness ==
  /\ detailProductId # <<>>
  /\ Len(detailPresses) = 2
  /\ ~detailPresses[1].early
  /\ detailPresses[2].early
  /\ Cardinality({k \in 1..Len(remoteCalls) :
                    remoteCalls[k].kind # "check"}) = 1
  /\ inflight = {}
  /\ detailErrors = 1
  /\ ~isFavorited
  /\ ~detailToggling

\* ------------------------------------------------- taps and unmounting
\* C28: once the ReelItem is unmounted, no onSingleTap callback fires.
C28_NoCallbackAfterUnmount ==
  [][~reelMounted =>
       ~(/\ Len(callbacks') = Len(callbacks) + 1
         /\ callbacks'[Len(callbacks')].kind = "onSingleTap")]_vars

\* ------------------------------------------------- the hidden section
\* C21: 'UpsideDown' comes onto the home stack only in a step of
\* handleScrollEndDrag on the home screen that finds the overscroll counter
\* at 2 and unlocks; UpsideDownReels and AddUpsideDownProduct are only ever
\* on the stack directly above UpsideDown.
C21_HiddenSection ==
  /\ [][((\E k \in 1..Len(Stack') : Stack'[k] = "UpsideDown")
           /\ ~(\E k \in 1..Len(Stack) : Stack[k] = "UpsideDown")) =>
          /\ screen = "Home"
          /\ overscrollCountRef = 2
          /\ Len(unlocks') = Len(unlocks) + 1
          /\ Len(attempts') = Len(attempts) + 1
          /\ attempts'[Len(attempts')].fired]_vars
  /\ [](\A k \in 1..Len(Stack) :
          Stack[k] \in {"UpsideDownReels", "AddUpsideDownProduct"} =>
            k > 1 /\ Stack[k-1] = "UpsideDown")

\* after one unlock the user has opened the hidden feed and a product of it
C21_Witness ==
  /\ Stack = <<"Home", "UpsideDown", "UpsideDownReels", "ProductDetail">>
  /\ Len(unlocks) = 1
  /\ \E i \in 1..Len(attempts) : attempts[i].fired /\ attempts[i].before = 2

====
